---- MODULE Spec2Model ----
(***************************************************************************)
(* Session / credential management, route guards and transport of the      *)
(* browser client: AuthProvider (context/AuthContext.tsx), the protected   *)
(* pages (dashboard, consult, deep-dive, admin) and lib/api.ts.            *)
(*                                                                         *)
(* JavaScript values are modelled as follows.  A string the program only   *)
(* passes around (a token, an error message) is a TLA+ string.  A string   *)
(* the program serialises (a payload field) is a sequence of one-character *)
(* strings, so that URL encoding and JSON escaping are computed.  null,    *)
(* undefined and "field absent from a JSON object" are the three marker    *)
(* strings below; no token or message equals a marker.                     *)
(***************************************************************************)
EXTENDS Integers, Sequences, FiniteSets, TLC

VARIABLES
    token,       \* AuthProvider's React state `token`
    storage,     \* localStorage slot "token" (Null: no such key)
    initDone,    \* the AuthProvider mount effect has run in this page load
    calls,       \* in-flight AuthProvider.login calls, by call slot
    last,        \* outcome of the last completed session operation
    written,     \* value the last login handed to localStorage.setItem
    view,        \* the page that is mounted
    pendingNav,  \* destination of the last router.push / link click not yet applied
    shown,       \* what the mounted page rendered at its last evaluation
    redirected,  \* the page's effect pushed "/login" at its last evaluation
    revoked,     \* the page showed content when logout cleared the token
    xfer,        \* the lib/api.ts call in flight (post / get)
    race         \* observer of the order in which concurrent logins and logout ran

vars == <<token, storage, initDone, calls, last, written,
          view, pendingNav, shown, redirected, revoked, xfer, race>>

sessionVars == <<token, storage, initDone, calls, last, written>>
viewVars == <<view, pendingNav, shown, redirected, revoked>>

----------------------------------------------------------------------------
(* Bounds *)

\* number of AuthProvider.login calls that may be in flight together
MaxCalls == 2

Calls == 1 .. MaxCalls

----------------------------------------------------------------------------
(* JavaScript values *)

Null == "<null>"
Undefined == "<undefined>"
Absent == "<absent>"
None == "<none>"

\* tokens the remote API may issue
Tokens == {"tok1", "tok2"}

\* ToBoolean on the values a token can take: null, undefined and "" are falsy
Truthy(v) == v \notin {Null, Undefined, ""}

\* Reading a property of a parsed JSON object: an absent field reads undefined
Field(v) == IF v = Absent THEN Undefined ELSE v

\* localStorage.setItem stringifies its value
ToStorageString(v) == IF v = Undefined THEN "undefined" ELSE v

----------------------------------------------------------------------------
(* Serialisation (lib/api.ts, AuthContext.tsx) *)

RECURSIVE Concat(_)
Concat(ss) == IF ss = <<>> THEN <<>> ELSE Head(ss) \o Concat(Tail(ss))

\* application/x-www-form-urlencoded byte serialiser over the model's alphabet
FormEncodeChar(c) ==
    CASE c = "@"  -> <<"%", "4", "0">>
      [] c = "&"  -> <<"%", "2", "6">>
      [] c = "="  -> <<"%", "3", "D">>
      [] c = "%"  -> <<"%", "2", "5">>
      [] c = "\"" -> <<"%", "2", "2">>
      [] c = " "  -> <<"+">>
      [] OTHER    -> <<c>>

FormEncode(s) == Concat([i \in 1 .. Len(s) |-> FormEncodeChar(s[i])])

RECURSIVE URLSearchParamsToString(_)
\* new URLSearchParams(body).toString(): name=value pairs joined by "&"
URLSearchParamsToString(body) ==
    IF body = <<>> THEN <<>>
    ELSE FormEncode(Head(body)[1]) \o <<"=">> \o FormEncode(Head(body)[2])
         \o (IF Tail(body) = <<>> THEN <<>>
             ELSE <<"&">> \o URLSearchParamsToString(Tail(body)))

JSONEscapeChar(c) ==
    CASE c = "\"" -> <<"\\", "\"">>
      [] c = "\\" -> <<"\\", "\\">>
      [] OTHER    -> <<c>>

JSONQuote(s) ==
    <<"\"">> \o Concat([i \in 1 .. Len(s) |-> JSONEscapeChar(s[i])]) \o <<"\"">>

RECURSIVE JSONMembers(_)
JSONMembers(body) ==
    IF body = <<>> THEN <<>>
    ELSE JSONQuote(Head(body)[1]) \o <<":">> \o JSONQuote(Head(body)[2])
         \o (IF Tail(body) = <<>> THEN <<>>
             ELSE <<",">> \o JSONMembers(Tail(body)))

\* JSON.stringify of a flat object of string fields, in insertion order
JSONStringify(body) == <<"{">> \o JSONMembers(body) \o <<"}">>

----------------------------------------------------------------------------
(* Requests *)

EmailKey == <<"e", "m", "a", "i", "l">>
PasswordKey == <<"p", "a", "s", "s", "w", "o", "r", "d">>
UsernameKey == <<"u", "s", "e", "r", "n", "a", "m", "e">>
GrantTypeKey == <<"g", "r", "a", "n", "t", "_", "t", "y", "p", "e">>

FormType == "application/x-www-form-urlencoded"
JsonType == "application/json"

\* `${process.env.NEXT_PUBLIC_API_URL}` of AuthContext.tsx
ContextApiUrl == "NEXT_PUBLIC_API_URL"
\* API_BASE of lib/api.ts
API_BASE == "NEXT_PUBLIC_API_BASE_URL || http://127.0.0.1:8000"

\* headers["Authorization"] = `Bearer ${token}`
Bearer(tok) == [scheme |-> "Bearer", credentials |-> tok]
NoAuthorization == [scheme |-> None, credentials |-> None]

NoRequest ==
    [base |-> None, path |-> None, method |-> None, contentType |-> None,
     authorization |-> NoAuthorization, body |-> <<>>]

\* identifiers and secrets a user may type
Identifiers == {<<"a", "@", "b">>}
Secrets == {<<"p">>, <<"s", "&", "=">>}

\* The fetch of AuthProvider.login
LoginRequest(email, password) ==
    [base |-> ContextApiUrl, path |-> "/login", method |-> "POST",
     contentType |-> JsonType, authorization |-> NoAuthorization,
     body |-> JSONStringify(<<<<EmailKey, email>>, <<PasswordKey, password>>>>)]

----------------------------------------------------------------------------
(* Responses of the remote API *)

Body(m, t, d) == [malformed |-> m, access_token |-> t, detail |-> d]

MalformedBody == Body(TRUE, Absent, Absent)

NoResponse == [ok |-> FALSE, body |-> Body(FALSE, None, None)]

Details == {Absent, "", "Invalid credentials"}

LoginResponses ==
    {[ok |-> TRUE, body |-> Body(FALSE, t, Absent)] : t \in {Absent, ""} \cup Tokens}
    \cup {[ok |-> FALSE, body |-> Body(FALSE, Absent, d)] : d \in Details}
    \cup {[ok |-> o, body |-> MalformedBody] : o \in BOOLEAN}

\* message of the error res.json() rejects with on a body that is not JSON
SyntaxErrorMessage == "SyntaxError"

----------------------------------------------------------------------------
(* Session: AuthProvider *)

IdleCall == [pc |-> "idle", req |-> NoRequest, res |-> NoResponse]

Outcome(op, ret, msg, rep) == [op |-> op, ret |-> ret, msg |-> msg, rep |-> rep]

\* isAuthenticated: Boolean(token)
isAuthenticated == Truthy(token)

Protected == {"/dashboard", "/consult", "/deep-dive", "/admin"}
Pages == {"/login"} \cup Protected

\* React re-renders the consumers of the context when setToken changes the state
Rerender(new) == IF new = token THEN shown ELSE "stale"

\* the mounted page was showing protected content when logout cleared the token
RevokedByLogout ==
    revoked \/ (Truthy(token) /\ view \in Protected /\ shown = "content")

\* a later truthy token ends the revocation
StillRevoked(new) == revoked /\ ~Truthy(new)

\* useEffect(() => { const saved = getItem("token"); if (saved) setToken(saved) }, [])
InitToken(saved) == IF Truthy(saved) THEN saved ELSE token

InitEffect ==
    /\ ~initDone
    /\ shown # "stale"
    /\ initDone' = TRUE
    /\ token' = InitToken(storage)
    /\ shown' = Rerender(token')
    /\ revoked' = StillRevoked(token')
    /\ last' = Outcome("init", None, None, 0)
    /\ UNCHANGED <<storage, calls, written, view, pendingNav, redirected, xfer>>

\* login up to the suspension at `await fetch(...)`
LoginStart(c, email, password) ==
    /\ initDone
    /\ calls[c].pc = "idle"
    /\ calls' = [calls EXCEPT ![c] =
                    [pc |-> "fetching", req |-> LoginRequest(email, password),
                     res |-> NoResponse]]
    /\ UNCHANGED <<token, storage, initDone, last, written, viewVars, xfer>>

\* the fetch settles; login tests res.ok and suspends at `await res.json()`
FetchResolve(c, res) ==
    /\ calls[c].pc = "fetching"
    /\ calls' = [calls EXCEPT ![c] = [pc |-> "parsing", req |-> NoRequest, res |-> res]]
    /\ UNCHANGED <<token, storage, initDone, last, written, viewVars, xfer>>

\* err.detail || "Login failed"
RejectionMessage(body) ==
    IF body.malformed THEN SyntaxErrorMessage
    ELSE IF Truthy(Field(body.detail)) THEN body.detail ELSE "Login failed"

\* mutant: a rejected login drops the session it found
RejectStateClears == <<Null, storage>>

\* what a rejected login leaves in <<token, localStorage>>
RejectState == <<token, storage>>

\* !res.ok branch, and the rejection of res.json() on either branch
LoginReject(c) ==
    /\ calls[c].pc = "parsing"
    /\ ~calls[c].res.ok \/ calls[c].res.body.malformed
    /\ calls' = [calls EXCEPT ![c] = IdleCall]
    /\ last' = Outcome("loginRejected", None, RejectionMessage(calls[c].res.body), 0)
    /\ token' = RejectState[1]
    /\ storage' = RejectState[2]
    /\ shown' = Rerender(token')
    /\ revoked' = StillRevoked(token')
    /\ UNCHANGED <<initDone, written, view, pendingNav, redirected, xfer>>

\* const { access_token } = await res.json(); setItem; setToken; router.push
LoginResolve(c) ==
    /\ calls[c].pc = "parsing"
    /\ calls[c].res.ok /\ ~calls[c].res.body.malformed
    /\ LET access_token == Field(calls[c].res.body.access_token)
       IN /\ storage' = ToStorageString(access_token)
          /\ written' = ToStorageString(access_token)
          /\ token' = access_token
          /\ last' = Outcome("loginResolved", calls[c].res.body.access_token, None, 0)
    /\ shown' = Rerender(token')
    /\ revoked' = StillRevoked(token')
    /\ pendingNav' = "/dashboard"
    /\ calls' = [calls EXCEPT ![c] = IdleCall]
    /\ UNCHANGED <<initDone, view, redirected, xfer>>

\* mutant: logout forgets localStorage.removeItem
LogoutStateKeepsStorage == <<Null, storage>>

\* what logout leaves in <<token, localStorage>>
LogoutState == <<Null, Null>>

\* removeItem("token"); setToken(null); router.push("/login")
logout ==
    /\ initDone
    /\ token' = LogoutState[1]
    /\ storage' = LogoutState[2]
    /\ written' = None
    /\ shown' = Rerender(token')
    /\ revoked' = RevokedByLogout
    /\ pendingNav' = "/login"
    /\ last' = Outcome("logout", None, None,
                       IF last.op = "logout" THEN 2 ELSE 1)
    /\ UNCHANGED <<initDone, calls, view, redirected, xfer>>

\* page reload: the JavaScript heap is gone, localStorage stays
Restart ==
    /\ initDone
    /\ token' = Null
    /\ initDone' = FALSE
    /\ calls' = [c \in Calls |-> IdleCall]
    /\ last' = Outcome("restart", None, None, 0)
    /\ shown' = "stale"
    /\ pendingNav' = None
    /\ redirected' = FALSE
    /\ revoked' = FALSE
    /\ UNCHANGED <<storage, written, view, xfer>>

----------------------------------------------------------------------------
(* Route guards: the pages *)

\* useEffect(() => { if (!token) router.push("/login") }, [token, router])
GuardRedirects(page) == page \in {"/dashboard", "/consult", "/deep-dive"} /\ ~Truthy(token)

\* what the page's render returns
Render(page) ==
    CASE page = "/dashboard" -> "content"
      [] page \in {"/consult", "/deep-dive"} ->
            IF ~Truthy(token) THEN "nothing" ELSE "content"
      [] page = "/admin" -> IF ~Truthy(token) THEN "notice" ELSE "content"
      [] OTHER -> "public"

\* a render of the mounted page followed by its effects.  AdminPage's list of
\* pending users is presentation state and is left out.
EvaluateView ==
    /\ shown = "stale"
    /\ shown' = Render(view)
    /\ redirected' = GuardRedirects(view)
    /\ pendingNav' = IF GuardRedirects(view) THEN "/login" ELSE pendingNav
    /\ UNCHANGED <<sessionVars, view, revoked, xfer>>

\* a <Link> of the sidebar or of the home page is clicked
LinkClick(page) ==
    /\ initDone
    /\ pendingNav' = page
    /\ UNCHANGED <<sessionVars, view, shown, redirected, revoked, xfer>>

\* the router applies the pending navigation: the destination page mounts
CompleteNavigation ==
    /\ initDone
    /\ pendingNav # None
    /\ view' = pendingNav
    /\ pendingNav' = None
    /\ shown' = "stale"
    /\ redirected' = FALSE
    /\ revoked' = FALSE
    /\ UNCHANGED <<sessionVars, xfer>>

----------------------------------------------------------------------------
(* Transport: lib/api.ts *)

\* payloads the pages and wrappers hand to post
Payloads ==
    {<<>>}
    \cup {<<<<UsernameKey, e>>, <<PasswordKey, p>>>> : e \in Identifiers, p \in Secrets}
    \cup {<<<<UsernameKey, <<"a", " ", "\"">>>>, <<PasswordKey, <<"%", "\\">>>>>>}

Paths == {"/auth/register", "/admin/approve/1"}

\* values a caller may pass as options.token / token
CallerTokens == {Undefined, "", "tok1"}

Options(form, tok) == [form |-> form, token |-> tok]

Args(path, body, options) == [path |-> path, body |-> body, options |-> options]

NoArgs == Args(None, <<>>, Options(FALSE, Undefined))

\* mutant: the header ignores options.form
PostContentTypeJsonOnly(options) == JsonType

\* the Content-Type post selects from options.form
PostContentType(options) == IF options.form THEN FormType ELSE JsonType

\* the body post serialises from options.form
PostBody(body, options) ==
    IF options.form THEN URLSearchParamsToString(body) ELSE JSONStringify(body)

\* headers and fetch arguments of post, first definition
PostRequest(path, body, options) ==
    [base |-> API_BASE, path |-> path, method |-> "POST",
     contentType |-> PostContentType(options),
     authorization |-> IF Truthy(options.token) THEN Bearer(options.token)
                       ELSE NoAuthorization,
     body |-> PostBody(body, options)]

\* headers and fetch arguments of post, second definition
PostRequestV2(path, body, options) ==
    [base |-> API_BASE, path |-> path, method |-> "POST",
     contentType |-> IF options.form THEN FormType ELSE JsonType,
     authorization |-> IF Truthy(options.token) THEN Bearer(options.token)
                       ELSE NoAuthorization,
     body |-> IF options.form THEN URLSearchParamsToString(body)
              ELSE JSONStringify(body)]

\* headers and fetch arguments of get
GetRequest(path, tok) ==
    [base |-> API_BASE, path |-> path, method |-> "GET", contentType |-> None,
     authorization |-> IF Truthy(tok) THEN Bearer(tok) ELSE NoAuthorization,
     body |-> <<>>]

TransportResponses ==
    {[ok |-> o, body |-> Body(FALSE, t, Absent)] : o \in BOOLEAN, t \in {Absent, "tok1"}}
    \cup {[ok |-> FALSE, body |-> Body(FALSE, Absent, d)] : d \in Details}
    \cup {[ok |-> o, body |-> MalformedBody] : o \in BOOLEAN}

Settled(kind, error, value) == [kind |-> kind, error |-> error, value |-> value]

NoOutcome == Settled(None, None, Body(FALSE, None, None))

NoTransfer ==
    [pc |-> "idle", fn |-> None, args |-> NoArgs, req |-> NoRequest,
     res |-> NoResponse, outcome |-> NoOutcome]

\* return res.json()
ReturnJson(res) ==
    IF res.body.malformed THEN Settled("threw", "SyntaxError", res.body)
    ELSE Settled("returned", None, res.body)

\* if (!res.ok) throw new Error(await res.text()); return res.json()
CheckedResult(res) ==
    IF ~res.ok THEN Settled("threw", "Error(text)", res.body) ELSE ReturnJson(res)

\* the tail of each transport function, from the settled fetch on
TransportResult(fn, res) ==
    CASE fn = "post"   -> CheckedResult(res)
      [] fn = "get"    -> CheckedResult(res)
      [] fn = "postV2" -> ReturnJson(res)

\* post(path, body, options) up to the suspension at `await fetch(...)`
PostStart(fn, path, body, options) ==
    /\ xfer.pc \in {"idle", "settled"}
    /\ xfer' = [pc |-> "fetching", fn |-> fn, args |-> Args(path, body, options),
                req |-> IF fn = "post" THEN PostRequest(path, body, options)
                        ELSE PostRequestV2(path, body, options),
                res |-> NoResponse, outcome |-> NoOutcome]
    /\ UNCHANGED <<sessionVars, viewVars>>

\* get(path, token) up to the suspension at `await fetch(...)`
GetStart(path, tok) ==
    /\ xfer.pc \in {"idle", "settled"}
    /\ xfer' = [pc |-> "fetching", fn |-> "get",
                args |-> Args(path, <<>>, Options(FALSE, tok)),
                req |-> GetRequest(path, tok),
                res |-> NoResponse, outcome |-> NoOutcome]
    /\ UNCHANGED <<sessionVars, viewVars>>

\* login(username, password) of lib/api.ts: the form-encoded OAuth2 password flow
ApiLogin(fn, username, password) ==
    PostStart(fn, "/auth/login",
              <<<<GrantTypeKey, PasswordKey>>, <<UsernameKey, username>>,
                <<PasswordKey, password>>>>,
              Options(TRUE, Undefined))

\* LoginPage.handleSubmit up to the suspension at `await post(...)`.  What it does
\* with the result goes through app/_context/AuthContext, which is not among the
\* sources; the outcome of the post is all that is modelled of it.
HandleSubmit(fn, email, password) ==
    PostStart(fn, "/auth/login",
              <<<<UsernameKey, email>>, <<PasswordKey, password>>>>,
              Options(TRUE, Undefined))

\* the fetch settles and the transport function runs to its end
TransferSettle(res) ==
    /\ xfer.pc = "fetching"
    /\ xfer' = [xfer EXCEPT !.pc = "settled", !.res = res,
                            !.outcome = TransportResult(xfer.fn, res)]
    /\ UNCHANGED <<sessionVars, viewVars>>

----------------------------------------------------------------------------
(* Observer of concurrent logins.  It reads the session and never writes it:   *)
(* which fetch settled last, which logins were still running when one         *)
(* resolved, and which were running when logout was called.                   *)

NoRace ==
    [fetched |-> 0, pending |-> {}, overtaken |-> {}, winner |-> None, stale |-> {}]

\* the login calls suspended at one of their awaits
InFlight == {c \in Calls : calls[c].pc # "idle"}

\* the fetch of call c is the one that settled last
ObserveFetch(c) == race' = [race EXCEPT !.fetched = c]

\* call c resolves: the others still running are pending; those whose fetch had
\* settled before c's are overtaken, and c's token is the one to prevail over them
ObserveResolve(c) ==
    race' = [fetched |-> IF race.fetched = c THEN 0 ELSE race.fetched,
             pending |-> InFlight \ {c},
             overtaken |-> IF race.fetched = c
                           THEN {d \in Calls \ {c} : calls[d].pc = "parsing"}
                           ELSE {},
             winner |-> calls[c].res.body.access_token,
             stale |-> race.stale \ {c}]

ObserveReject(c) ==
    race' = [race EXCEPT !.fetched = IF @ = c THEN 0 ELSE @,
                         !.pending = @ \ {c}, !.overtaken = @ \ {c},
                         !.stale = @ \ {c}]

\* logout is called: every login still running started before it
ObserveLogout ==
    race' = [race EXCEPT !.pending = {}, !.overtaken = {}, !.winner = None,
                         !.stale = InFlight]

----------------------------------------------------------------------------
(* Specifications *)

Init ==
    /\ token = Null
    /\ storage = Null
    /\ initDone = FALSE
    /\ calls = [c \in Calls |-> IdleCall]
    /\ last = Outcome("none", None, None, 0)
    /\ written = None
    /\ view \in Pages
    /\ pendingNav = None
    /\ shown = "stale"
    /\ redirected = FALSE
    /\ revoked = FALSE
    /\ xfer = NoTransfer
    /\ race = NoRace

\* the session and the router, with any number of logins in flight
Next ==
    \/ InitEffect /\ UNCHANGED race
    \/ \E c \in Calls, e \in Identifiers, p \in Secrets : LoginStart(c, e, p)
            /\ UNCHANGED race
    \/ \E c \in Calls, r \in LoginResponses : FetchResolve(c, r)
            /\ UNCHANGED race
    \/ \E c \in Calls : LoginReject(c) /\ UNCHANGED race
    \/ \E c \in Calls : LoginResolve(c) /\ UNCHANGED race
    \/ logout /\ UNCHANGED race
    \/ Restart /\ UNCHANGED race
    \/ EvaluateView /\ UNCHANGED race
    \/ CompleteNavigation /\ UNCHANGED race

Spec == Init /\ [][Next]_vars

\* the pages under a user who follows links, one login at a time
NextPages ==
    \/ InitEffect /\ UNCHANGED race
    \/ \E e \in Identifiers, p \in Secrets : LoginStart(1, e, p)
            /\ UNCHANGED race
    \/ \E r \in LoginResponses : FetchResolve(1, r) /\ UNCHANGED race
    \/ LoginReject(1) /\ UNCHANGED race
    \/ LoginResolve(1) /\ UNCHANGED race
    \/ logout /\ UNCHANGED race
    \/ Restart /\ UNCHANGED race
    \/ EvaluateView /\ UNCHANGED race
    \/ \E page \in Pages : LinkClick(page) /\ UNCHANGED race
    \/ CompleteNavigation /\ UNCHANGED race

SpecPages == Init /\ [][NextPages]_vars

\* the session and the router, with the observer of concurrent logins
NextRace ==
    \/ InitEffect /\ UNCHANGED race
    \/ \E c \in Calls, e \in Identifiers, p \in Secrets :
          LoginStart(c, e, p) /\ UNCHANGED race
    \/ \E c \in Calls, r \in LoginResponses : FetchResolve(c, r) /\ ObserveFetch(c)
    \/ \E c \in Calls : LoginReject(c) /\ ObserveReject(c)
    \/ \E c \in Calls : LoginResolve(c) /\ ObserveResolve(c)
    \/ logout /\ ObserveLogout
    \/ Restart /\ race' = NoRace
    \/ EvaluateView /\ UNCHANGED race
    \/ CompleteNavigation /\ UNCHANGED race

SpecRace == Init /\ [][NextRace]_vars

\* the transport functions and their callers
NextTransport ==
    \/ \E fn \in {"post", "postV2"}, path \in Paths, body \in Payloads,
          form \in BOOLEAN, tok \in CallerTokens :
            PostStart(fn, path, body, Options(form, tok)) /\ UNCHANGED race
    \/ \E path \in {"/users/me"}, tok \in CallerTokens : GetStart(path, tok)
            /\ UNCHANGED race
    \/ \E fn \in {"post", "postV2"}, u \in Identifiers, p \in Secrets :
            ApiLogin(fn, u, p) /\ UNCHANGED race
    \/ \E fn \in {"post", "postV2"}, e \in Identifiers, p \in Secrets :
            HandleSubmit(fn, e, p) /\ UNCHANGED race
    \/ \E res \in TransportResponses : TransferSettle(res) /\ UNCHANGED race

SpecTransport == Init /\ [][NextTransport]_vars

----------------------------------------------------------------------------
(* Parsers used to state the claims about requests *)

RECURSIVE SplitAcc(_, _, _, _)
SplitAcc(s, sep, done, cur) ==
    IF s = <<>> THEN Append(done, cur)
    ELSE IF Head(s) = sep THEN SplitAcc(Tail(s), sep, Append(done, cur), <<>>)
    ELSE SplitAcc(Tail(s), sep, done, Append(cur, Head(s)))

\* the pieces of s between occurrences of sep
SplitOn(s, sep) == SplitAcc(s, sep, <<>>, <<>>)

PercentDecode(a, b) ==
    CASE <<a, b>> = <<"4", "0">> -> "@"
      [] <<a, b>> = <<"2", "6">> -> "&"
      [] <<a, b>> = <<"3", "D">> -> "="
      [] <<a, b>> = <<"2", "5">> -> "%"
      [] <<a, b>> = <<"2", "2">> -> "\""
      [] OTHER -> "?"

RECURSIVE FormDecode(_)
FormDecode(s) ==
    IF s = <<>> THEN <<>>
    ELSE IF Head(s) = "+" THEN <<" ">> \o FormDecode(Tail(s))
    ELSE IF Head(s) = "%" /\ Len(s) >= 3
         THEN <<PercentDecode(s[2], s[3])>> \o FormDecode(SubSeq(s, 4, Len(s)))
    ELSE <<Head(s)>> \o FormDecode(Tail(s))

\* a server's reading of an application/x-www-form-urlencoded body
FormParse(s) ==
    IF s = <<>> THEN <<>>
    ELSE LET parts == SplitOn(s, "&")
         IN [i \in 1 .. Len(parts) |->
                LET kv == SplitOn(parts[i], "=")
                IN IF Len(kv) = 2 THEN <<FormDecode(kv[1]), FormDecode(kv[2])>>
                   ELSE <<<<"?">>, <<"?">>>>]

RECURSIVE JSONStrings(_, _, _)
\* the string literals of a JSON text, unescaped, in order
JSONStrings(s, inString, cur) ==
    IF s = <<>> THEN <<>>
    ELSE IF ~inString
         THEN IF Head(s) = "\"" THEN JSONStrings(Tail(s), TRUE, <<>>)
              ELSE JSONStrings(Tail(s), FALSE, <<>>)
    ELSE IF Head(s) = "\\" /\ Len(s) >= 2
         THEN JSONStrings(Tail(Tail(s)), TRUE, cur \o <<s[2]>>)
    ELSE IF Head(s) = "\"" THEN <<cur>> \o JSONStrings(Tail(s), FALSE, <<>>)
    ELSE JSONStrings(Tail(s), TRUE, cur \o <<Head(s)>>)

\* a server's reading of a JSON object of string fields
JSONParse(s) ==
    LET strs == JSONStrings(s, FALSE, <<>>)
    IN IF Len(s) >= 2 /\ s[1] = "{" /\ s[Len(s)] = "}" /\ Len(strs) % 2 = 0
       THEN [i \in 1 .. (Len(strs) \div 2) |-> <<strs[2 * i - 1], strs[2 * i]>>]
       ELSE <<<<<<"?">>, <<"?">>>>>>

----------------------------------------------------------------------------
(* Claims *)

\* C1 (as claimed): after a login whose response had a success status has
\* completed, isAuthenticated is true and localStorage "token" holds exactly
\* the access_token of the response, whatever that field is.
C1_SuccessfulLoginAuthenticates ==
    last.op = "loginResolved" => isAuthenticated /\ storage = last.ret

\* the message the claim C2 expects: detail, or the fallback when detail is absent
C2_ClaimedMessage(body) == IF body.detail = Absent THEN "Login failed" ELSE body.detail

\* the message the code produces, case by case
C2_AmendedMessage(body) ==
    CASE body.malformed -> SyntaxErrorMessage
      [] ~body.malformed /\ body.detail \in {Absent, ""} -> "Login failed"
      [] OTHER -> body.detail

\* the step in which login call c, holding a non-success response, rejects
C2_RejectStep(c) ==
    /\ calls[c].pc = "parsing"
    /\ ~calls[c].res.ok
    /\ calls'[c].pc = "idle"
    /\ last'.op = "loginRejected"

\* C2 (as claimed): a login with a non-success response rejects, leaves the
\* token, isAuthenticated and localStorage as they were, and its message is the
\* body's detail, or "Login failed" when detail is absent.
C2_FailedLoginAsClaimed ==
    [][\A c \in Calls : C2_RejectStep(c) =>
          /\ token' = token /\ storage' = storage
          /\ isAuthenticated' = isAuthenticated
          /\ last'.msg = C2_ClaimedMessage(calls[c].res.body)]_vars

\* C2 (amended): a login with a non-success response rejects and leaves the
\* token, isAuthenticated and localStorage as they were; its message is the
\* body's detail when that is a non-empty string, "Login failed" when detail
\* is absent or empty, and the parse error when the body is not JSON.
C2_FailedLoginLeavesSession ==
    [][\A c \in Calls : C2_RejectStep(c) =>
          /\ token' = token /\ storage' = storage
          /\ isAuthenticated' = isAuthenticated
          /\ last'.msg = C2_AmendedMessage(calls[c].res.body)]_vars

\* a login was rejected with the server's detail while the session was authenticated
C2_Witness ==
    /\ last.op = "loginRejected" /\ last.msg = "Invalid credentials"
    /\ isAuthenticated /\ storage = token

\* C3 (as claimed): a protected page evaluated while isAuthenticated is false
\* redirects to /login and renders no protected content; evaluated while it is
\* true, it renders the content and does not redirect.
C3_GuardDecision ==
    (view \in Protected /\ shown # "stale") =>
        IF isAuthenticated THEN shown = "content" /\ ~redirected
        ELSE shown # "content" /\ redirected

\* C4 (as claimed): when the initialization effect has run, the session is
\* authenticated exactly if localStorage holds a value under "token", the token
\* in memory is that value, and the effect issued no network call.
C4_InitReflectsStorage ==
    [][(~initDone /\ initDone') =>
          /\ isAuthenticated' <=> storage' # Null
          /\ storage' # Null => token' = storage'
          /\ calls' = calls /\ xfer' = xfer]_vars

\* C5 (as claimed): post and get, given a non-success response, throw an error
\* carrying the response's payload and never return a value.
C5_NonSuccessThrows ==
    (xfer.pc = "settled" /\ ~xfer.res.ok) =>
        /\ xfer.outcome.kind = "threw"
        /\ xfer.outcome.error = "Error(text)"
        /\ xfer.outcome.value = xfer.res.body

\* C6 (as claimed): the request of AuthProvider.login is form-encoded, goes to
\* /auth/login under the configured base URL and carries exactly username and
\* password.
C6_LoginRequestIsFormEncoded ==
    \A c \in Calls : calls[c].pc = "fetching" =>
        /\ calls[c].req.contentType = FormType
        /\ calls[c].req.base = API_BASE
        /\ calls[c].req.path = "/auth/login"
        /\ \E e \in Identifiers, p \in Secrets :
              FormParse(calls[c].req.body) = <<<<UsernameKey, e>>, <<PasswordKey, p>>>>

\* C7: in every request built by post, form mode gives the urlencoded
\* Content-Type with a body that parses as the payload's name=value pairs, and
\* structured mode gives the JSON Content-Type with a body that parses as the
\* payload's JSON object.
C7_EncodingAgrees ==
    (xfer.pc # "idle" /\ xfer.fn \in {"post", "postV2"}) =>
        IF xfer.args.options.form
        THEN /\ xfer.req.contentType = FormType
             /\ FormParse(xfer.req.body) = xfer.args.body
             /\ (xfer.args.body # <<>> => JSONParse(xfer.req.body) # xfer.args.body)
        ELSE /\ xfer.req.contentType = JsonType
             /\ JSONParse(xfer.req.body) = xfer.args.body
             /\ (xfer.args.body # <<>> => FormParse(xfer.req.body) # xfer.args.body)

\* post was called in form mode with a payload whose values need escaping
C7_Witness ==
    /\ xfer.pc = "fetching" /\ xfer.fn = "post"
    /\ xfer.args.options.form
    /\ xfer.args.body = <<<<UsernameKey, <<"a", "@", "b">>>>,
                          <<PasswordKey, <<"s", "&", "=">>>>>>
    /\ xfer.req.body # Concat(<<UsernameKey, <<"=">>, <<"a", "@", "b">>, <<"&">>,
                                PasswordKey, <<"=">>, <<"s", "&", "=">>>>)

\* C8 (as claimed): after a restart with no logout in between, the token in
\* memory after initialization is the credential the last successful login wrote.
C8_RestartRoundTrip ==
    (last.op = "init" /\ written # None) => token = written

\* C9: logout raises nothing and leaves the token null and localStorage empty,
\* also when the session was already unauthenticated; a logout right after a
\* logout leaves the session and the storage as the first one did.
C9_LogoutIdempotent ==
    [][last'.op = "logout" =>
          /\ token' = Null /\ storage' = Null /\ ~isAuthenticated'
          /\ last'.msg = None
          /\ (last.op = "logout" =>
                 /\ token' = token /\ storage' = storage
                 /\ isAuthenticated' = isAuthenticated)]_vars

\* logout was called a second time in a row, on a session already unauthenticated
C9_Witness ==
    last.op = "logout" /\ last.rep = 2 /\ token = Null /\ storage = Null

\* C10 (as claimed): a protected page that was rendering its content when a
\* logout cleared the session is evaluated again and then renders no protected
\* content.  (The redirect to /login is pushed by logout itself.)
C10_LogoutBlocksMountedView ==
    (revoked /\ shown # "stale") => shown # "content"

\* C12 (as claimed): while the initialization effect has not yet run in a page
\* load that found a credential in localStorage, the mounted protected page has
\* issued no redirect to /login.
C12_NoStartupRedirect ==
    (~initDone /\ storage \in Tokens /\ view \in Protected) => ~redirected

\* no login call is running and the initialization effect has run
C14_Quiescent == initDone /\ \A c \in Calls : calls[c].pc = "idle"

\* C14 (as claimed): after initialization, whenever no operation is running,
\* the token and localStorage "token" are both absent or both the same string,
\* and isAuthenticated is true exactly when localStorage holds a value.
C14_TokenAgreesWithStorage ==
    C14_Quiescent =>
        /\ \/ token = Null /\ storage = Null
           \/ token = storage /\ token \notin {Null, Undefined}
        /\ isAuthenticated <=> storage # Null

\* the step in which login call c, holding a success response, resolves
LoginResolveStep(c) ==
    /\ calls[c].pc = "parsing"
    /\ calls[c].res.ok
    /\ calls'[c].pc = "idle"
    /\ last'.op = "loginResolved"

\* call c holds a response that carries a token string
HoldsToken(c) == calls[c].res.body.access_token \in Tokens

\* the tokens C11 admits when call c resolves after a concurrent login: that of
\* c, whose body was read last, or that of the login it overtook between the
\* settling of the fetch and the reading of the body
C11_Expected(c) ==
    {Field(calls[c].res.body.access_token)} \cup
        (IF c \in race.overtaken THEN {Field(race.winner)} ELSE {})

\* C11 (as claimed): when the second of two logins that were in flight together
\* and both received a success response resolves, the token and localStorage
\* "token" are both equal to the token of the login whose response completed last.
C11_LastResponseWins ==
    [][\A c \in Calls : (LoginResolveStep(c) /\ c \in race.pending) =>
          \E t \in C11_Expected(c) : token' = t /\ storage' = t]_vars

\* C13 (as claimed): a login that was in flight when logout was called stores
\* nothing and does not authenticate the session afterwards; after a logout the
\* token and localStorage change only when a login started after it resolves.
C13_LogoutOutlivesStaleLogins ==
    [][/\ \A c \in Calls :
             (LoginResolveStep(c) /\ HoldsToken(c) /\ c \in race.stale) =>
                 token' = token /\ storage' = storage
       /\ (last.op = "logout" /\ (token' # token \/ storage' # storage)) =>
             \E c \in Calls : LoginResolveStep(c) /\ c \notin race.stale]_vars

====
